---- MODULE Spec2Model ----
(***************************************************************************)
(* A model of src/api/daq_config.c: the DAQ configuration object and the  *)
(* dictionary of variables embedded in it.  The heap is modelled block by  *)
(* block: every calloc/strdup takes a free address, every free releases    *)
(* one, and the list of variables is the chain of `next' pointers that the *)
(* C code builds.                                                          *)
(***************************************************************************)
EXTENDS Integers, Sequences, FiniteSets, TLC

\* Number of blocks the allocator can hand out before it runs out of memory.
HeapSize == 8

NULL == 0
Addr == 1 .. HeapSize

\* Addresses of module descriptors: owned by the caller, outside the heap.
ModuleRefs == {HeapSize + 1, HeapSize + 2}

\* The strings callers pass in.  FewKeys are the keys used where the other
\* fields of the configuration vary as well.
Keys == {"a", "b", "c"}
FewKeys == {"a", "b"}
Values == {"x", "y"}
Inputs == {"", "eth0"}

\* DAQ_Mode, in the order of its enumerators.
DAQ_MODE_NONE == 0
DAQ_MODE_PASSIVE == 1
DAQ_MODE_INLINE == 2
DAQ_MODE_READ_FILE == 3

\* The numbers callers pass in: capture lengths (an int, any value is
\* accepted), timeouts in milliseconds, modes, and flag words of one or
\* several bits.
Snaplens == {1514}
Timeouts == {1000}
Modes == {DAQ_MODE_PASSIVE}
FlagWords == {1, 2}

\* A `const char *' argument or result: <<>> is the null pointer, <<s>> a
\* pointer to the string s.
None == <<>>
Some(s) == <<s>>
Opt(S) == {None} \cup {Some(s) : s \in S}

DAQ_SUCCESS == "DAQ_SUCCESS"
DAQ_ERROR_NOMEM == "DAQ_ERROR_NOMEM"
DAQ_ERROR_INVAL == "DAQ_ERROR_INVAL"

VARIABLES
    heap,      \* Addr -> block: the contents of every address
    cfg,       \* the caller's DAQ_Config_t * (NULL when there is none)
    ret,       \* the last call: its name, arguments and results
    pre,       \* what the caller could observe right before the last call
    walk,      \* the keys returned by the iteration in flight
    insOrder,  \* the live keys, oldest insertion first
    freeErr    \* TRUE once free() was handed a block that is not live

vars == <<heap, cfg, ret, pre, walk, insOrder, freeErr>>

(***************************************************************************)
(* Blocks                                                                  *)
(***************************************************************************)
FreeBlock == [t |-> "free"]
StrBlock(s) == [t |-> "str", s |-> s]
\* DAQ_DictEntry_t
EntryBlock(k, v, n) == [t |-> "entry", key |-> k, value |-> v, next |-> n]
\* DAQ_Config_t as calloc returns it: every field zero.  The embedded
\* DAQ_Dict_t is the pair of fields entries, iterator.
ZeroConfig ==
    [t |-> "cfg", module |-> NULL, input |-> NULL, snaplen |-> 0, timeout |-> 0,
     mode |-> 0, flags |-> 0, entries |-> NULL, iterator |-> NULL]

(***************************************************************************)
(* The allocator.  A memory m is [mem |-> the heap, err |-> a bad free     *)
(* was seen].                                                              *)
(***************************************************************************)
FreeAddrs(mem) == {a \in Addr : mem[a].t = "free"}

\* malloc/calloc/strdup's choice of block: the lowest free address, or NULL
\* when the allocation fails (ok = FALSE) or no address is free.
malloc(m, ok) ==
    IF ok /\ FreeAddrs(m.mem) # {}
    THEN CHOOSE a \in FreeAddrs(m.mem) : \A b \in FreeAddrs(m.mem) : a <= b
    ELSE NULL

store(m, p, b) == [m EXCEPT !.mem[p] = b]

\* free(p): free(NULL) does nothing; a block that is not live is an error.
free(m, p) ==
    IF p = NULL THEN m
    ELSE IF m.mem[p].t = "free" THEN [m EXCEPT !.err = TRUE]
    ELSE store(m, p, FreeBlock)

\* strdup(s): a new block holding a copy of s, or NULL.
strdup(m, s, ok) ==
    LET p == malloc(m, ok)
    IN  [m |-> IF p = NULL THEN m ELSE store(m, p, StrBlock(s)), p |-> p]

(***************************************************************************)
(* DAQ dictionary functions                                                *)
(***************************************************************************)
\* A faulty release_unlinked: the key's copy is forgotten.
release_unlinked_keeps_key(m, entry) == free(m, entry)

\* Lines 80-81: the value's copy failed; the key's copy and the entry go.
release_unlinked(m, entry) == free(free(m, m.mem[entry].key), entry)

\* A faulty link_entry: the new entry goes to the end of the list.
RECURSIVE last_from(_, _)
last_from(mem, entry) ==
    IF mem[entry].next = NULL THEN entry ELSE last_from(mem, mem[entry].next)

link_at_tail(m, c, entry) ==
    IF m.mem[c].entries = NULL
    THEN store(m, c, [m.mem[c] EXCEPT !.entries = entry])
    ELSE LET tail == last_from(m.mem, m.mem[c].entries)
         IN  store(m, tail, [m.mem[tail] EXCEPT !.next = entry])

\* A faulty link_entry: the new entry goes behind the head instead of
\* becoming it.
link_behind_head(m, c, entry) ==
    LET head == m.mem[c].entries
    IN  IF head = NULL
        THEN store(m, c, [m.mem[c] EXCEPT !.entries = entry])
        ELSE LET m1 == store(m, entry, [m.mem[entry] EXCEPT !.next = m.mem[head].next])
             IN  store(m1, head, [m1.mem[head] EXCEPT !.next = entry])

\* Lines 85-86: the new entry becomes the head of the list.
link_entry(m, c, entry) ==
    LET m1 == store(m, entry, [m.mem[entry] EXCEPT !.next = m.mem[c].entries])
    IN  store(m1, c, [m1.mem[c] EXCEPT !.entries = entry])

\* n is the number of allocations of this call that succeed.
daq_dict_insert_entry(m, c, key, value, n) ==
    LET entry == malloc(m, n >= 1)
    IN  IF entry = NULL THEN [m |-> m, rc |-> DAQ_ERROR_NOMEM]
        ELSE
        LET m1 == store(m, entry, EntryBlock(NULL, NULL, NULL))
            k  == strdup(m1, key, n >= 2)
        IN  IF k.p = NULL THEN [m |-> free(m1, entry), rc |-> DAQ_ERROR_NOMEM]
            ELSE
            LET m2 == store(k.m, entry, [k.m.mem[entry] EXCEPT !.key = k.p])
                v  == IF value # None THEN strdup(m2, value[1], n >= 3)
                      ELSE [m |-> m2, p |-> NULL]
            IN  IF value # None /\ v.p = NULL
                THEN [m |-> release_unlinked(m2, entry), rc |-> DAQ_ERROR_NOMEM]
                ELSE
                LET m3 == store(v.m, entry, [v.m.mem[entry] EXCEPT !.value = v.p])
                IN  [m |-> link_entry(m3, c, entry), rc |-> DAQ_SUCCESS]

RECURSIVE find_from(_, _, _)
find_from(mem, entry, key) ==
    IF entry = NULL THEN NULL
    ELSE IF mem[mem[entry].key].s = key THEN entry
    ELSE find_from(mem, mem[entry].next, key)

\* A faulty daq_dict_find_entry: the loop never moves past the head.
find_entry_head_only(mem, c, key) ==
    LET entry == mem[c].entries
    IN  IF entry # NULL /\ mem[mem[entry].key].s = key THEN entry ELSE NULL

daq_dict_find_entry(mem, c, key) == find_from(mem, mem[c].entries, key)

\* A faulty unlink_entry: prev is ignored, the list always restarts behind
\* entry.
unlink_entry_no_prev(m, c, entry, prev) ==
    store(m, c, [m.mem[c] EXCEPT !.entries = m.mem[entry].next])

\* Lines 112-115: entry leaves the list; prev is the entry before it, NULL
\* when entry is the head.
unlink_entry(m, c, entry, prev) ==
    IF prev # NULL
    THEN store(m, prev, [m.mem[prev] EXCEPT !.next = m.mem[entry].next])
    ELSE store(m, c, [m.mem[c] EXCEPT !.entries = m.mem[entry].next])

\* free(entry->key); free(entry->value); free(entry);
free_entry(m, entry) ==
    LET m1 == free(m, m.mem[entry].key)
        m2 == free(m1, m1.mem[entry].value)
    IN  free(m2, entry)

\* A faulty delete_found: the iterator is reset unless it is at the entry.
delete_found_resets_elsewhere(m, c, entry, prev) ==
    LET m1 == free_entry(unlink_entry(m, c, entry, prev), entry)
    IN  IF m1.mem[c].iterator = entry THEN m1
        ELSE store(m1, c, [m1.mem[c] EXCEPT !.iterator = NULL])

\* A faulty delete_found: the iterator is left where it was.
delete_found_keeps_iterator(m, c, entry, prev) ==
    free_entry(unlink_entry(m, c, entry, prev), entry)

\* Lines 112-120: what the loop of daq_dict_delete_entry does with the entry
\* whose key matches.
delete_found(m, c, entry, prev) ==
    LET m1 == free_entry(unlink_entry(m, c, entry, prev), entry)
    IN  store(m1, c, [m1.mem[c] EXCEPT !.iterator = NULL])

RECURSIVE delete_from(_, _, _, _, _)
delete_from(m, c, entry, prev, key) ==
    IF entry = NULL THEN m
    ELSE IF m.mem[m.mem[entry].key].s = key THEN delete_found(m, c, entry, prev)
    ELSE delete_from(m, c, m.mem[entry].next, entry, key)

\* A faulty daq_dict_delete_entry: the iterator is reset whether or not the
\* key was found.
delete_entry_always_resets(m, c, key) ==
    LET m1 == delete_from(m, c, m.mem[c].entries, NULL, key)
    IN  store(m1, c, [m1.mem[c] EXCEPT !.iterator = NULL])

daq_dict_delete_entry(m, c, key) == delete_from(m, c, m.mem[c].entries, NULL, key)

RECURSIVE clear_loop(_, _)
clear_loop(m, c) ==
    LET entry == m.mem[c].entries
    IN  IF entry = NULL THEN m
        ELSE LET m1 == store(m, c, [m.mem[c] EXCEPT !.entries = m.mem[entry].next])
             IN  clear_loop(free_entry(m1, entry), c)

\* A faulty daq_dict_clear: the iterator is left where it was.
clear_keeps_iterator(m, c) == clear_loop(m, c)

daq_dict_clear(m, c) ==
    LET m1 == clear_loop(m, c)
    IN  store(m1, c, [m1.mem[c] EXCEPT !.iterator = NULL])

daq_dict_first_entry(m, c) ==
    LET m1 == store(m, c, [m.mem[c] EXCEPT !.iterator = m.mem[c].entries])
    IN  [m |-> m1, p |-> m1.mem[c].iterator]

\* The values read from `iterator->next': the field of the entry the
\* iterator points at; when the iterator dangles the read is undefined, and
\* yields NULL or any entry.
IteratorNext(mem, it) ==
    IF it = NULL THEN {NULL}
    ELSE IF mem[it].t = "entry" THEN {mem[it].next}
    ELSE {NULL} \cup {a \in Addr : mem[a].t = "entry"}

\* A faulty daq_dict_next_entry: from no position it goes to the head.
next_entry_wraps(m, c, nx) ==
    LET m1 == IF m.mem[c].iterator # NULL
              THEN store(m, c, [m.mem[c] EXCEPT !.iterator = nx])
              ELSE store(m, c, [m.mem[c] EXCEPT !.iterator = m.mem[c].entries])
    IN  [m |-> m1, p |-> m1.mem[c].iterator]

\* nx is the value read from iterator->next.
daq_dict_next_entry(m, c, nx) ==
    LET m1 == IF m.mem[c].iterator # NULL
              THEN store(m, c, [m.mem[c] EXCEPT !.iterator = nx])
              ELSE m
    IN  [m |-> m1, p |-> m1.mem[c].iterator]

(***************************************************************************)
(* DAQ configuration functions                                             *)
(***************************************************************************)
\* A faulty daq_config_new: the block is not zeroed, and holds a snaplen.
new_not_zeroed(m, module, ok) ==
    IF module = NULL THEN [m |-> m, rc |-> DAQ_ERROR_INVAL, cfg |-> NULL]
    ELSE
    LET c == malloc(m, ok)
    IN  IF c = NULL THEN [m |-> m, rc |-> DAQ_ERROR_NOMEM, cfg |-> NULL]
        ELSE [m |-> store(m, c, [ZeroConfig EXCEPT !.module = module, !.snaplen = 1]),
              rc |-> DAQ_SUCCESS, cfg |-> c]

\* A faulty daq_config_new: the module is not tested.
new_without_module_test(m, module, ok) ==
    LET c == malloc(m, ok)
    IN  IF c = NULL THEN [m |-> m, rc |-> DAQ_ERROR_NOMEM, cfg |-> NULL]
        ELSE [m |-> store(m, c, [ZeroConfig EXCEPT !.module = module]),
              rc |-> DAQ_SUCCESS, cfg |-> c]

daq_config_new(m, module, ok) ==
    IF module = NULL THEN [m |-> m, rc |-> DAQ_ERROR_INVAL, cfg |-> NULL]
    ELSE
    LET c == malloc(m, ok)
    IN  IF c = NULL THEN [m |-> m, rc |-> DAQ_ERROR_NOMEM, cfg |-> NULL]
        ELSE [m |-> store(m, c, [ZeroConfig EXCEPT !.module = module]),
              rc |-> DAQ_SUCCESS, cfg |-> c]

\* A faulty daq_config_set_input: the empty string is taken for no string.
set_input_empty_clears(m, c, input, ok) ==
    IF c = NULL THEN [m |-> m, rc |-> DAQ_ERROR_INVAL]
    ELSE
    LET f  == free(m, m.mem[c].input)
        m1 == store(f, c, [f.mem[c] EXCEPT !.input = NULL])
    IN  IF input # None /\ input # Some("")
        THEN LET d  == strdup(m1, input[1], ok)
                 m2 == store(d.m, c, [d.m.mem[c] EXCEPT !.input = d.p])
             IN  IF d.p = NULL THEN [m |-> m2, rc |-> DAQ_ERROR_NOMEM]
                 ELSE [m |-> m2, rc |-> DAQ_SUCCESS]
        ELSE [m |-> m1, rc |-> DAQ_SUCCESS]

\* A faulty daq_config_set_input: the copy is made before the old string is
\* released, and a failed copy leaves the old string in place.
set_input_copy_first(m, c, input, ok) ==
    IF c = NULL THEN [m |-> m, rc |-> DAQ_ERROR_INVAL]
    ELSE IF input # None
    THEN LET d == strdup(m, input[1], ok)
         IN  IF d.p = NULL THEN [m |-> m, rc |-> DAQ_ERROR_NOMEM]
             ELSE LET f == free(d.m, d.m.mem[c].input)
                  IN  [m |-> store(f, c, [f.mem[c] EXCEPT !.input = d.p]),
                       rc |-> DAQ_SUCCESS]
    ELSE LET f == free(m, m.mem[c].input)
         IN  [m |-> store(f, c, [f.mem[c] EXCEPT !.input = NULL]), rc |-> DAQ_SUCCESS]

daq_config_set_input(m, c, input, ok) ==
    IF c = NULL THEN [m |-> m, rc |-> DAQ_ERROR_INVAL]
    ELSE
    LET m1 == IF m.mem[c].input # NULL
              THEN LET f == free(m, m.mem[c].input)
                   IN  store(f, c, [f.mem[c] EXCEPT !.input = NULL])
              ELSE m
    IN  IF input # None
        THEN LET d  == strdup(m1, input[1], ok)
                 m2 == store(d.m, c, [d.m.mem[c] EXCEPT !.input = d.p])
             IN  IF d.p = NULL THEN [m |-> m2, rc |-> DAQ_ERROR_NOMEM]
                 ELSE [m |-> m2, rc |-> DAQ_SUCCESS]
        ELSE [m |-> m1, rc |-> DAQ_SUCCESS]

daq_config_get_input(mem, c) == IF c # NULL THEN mem[c].input ELSE NULL

daq_config_get_module(mem, c) == IF c = NULL THEN NULL ELSE mem[c].module

daq_config_set_snaplen(m, c, snaplen) ==
    IF c = NULL THEN [m |-> m, rc |-> DAQ_ERROR_INVAL]
    ELSE [m |-> store(m, c, [m.mem[c] EXCEPT !.snaplen = snaplen]), rc |-> DAQ_SUCCESS]

daq_config_get_snaplen(mem, c) == IF c # NULL THEN mem[c].snaplen ELSE 0

\* A faulty daq_config_set_timeout: no configuration is not an error.
set_timeout_null_succeeds(m, c, timeout) ==
    IF c = NULL THEN [m |-> m, rc |-> DAQ_SUCCESS]
    ELSE [m |-> store(m, c, [m.mem[c] EXCEPT !.timeout = timeout]), rc |-> DAQ_SUCCESS]

daq_config_set_timeout(m, c, timeout) ==
    IF c = NULL THEN [m |-> m, rc |-> DAQ_ERROR_INVAL]
    ELSE [m |-> store(m, c, [m.mem[c] EXCEPT !.timeout = timeout]), rc |-> DAQ_SUCCESS]

daq_config_get_timeout(mem, c) == IF c # NULL THEN mem[c].timeout ELSE 0

daq_config_set_mode(m, c, mode) ==
    IF c = NULL THEN [m |-> m, rc |-> DAQ_ERROR_INVAL]
    ELSE [m |-> store(m, c, [m.mem[c] EXCEPT !.mode = mode]), rc |-> DAQ_SUCCESS]

daq_config_get_mode(mem, c) == IF c # NULL THEN mem[c].mode ELSE DAQ_MODE_NONE

\* a | b on unsigned words.
RECURSIVE BitOr(_, _)
BitOr(a, b) ==
    IF a = 0 THEN b
    ELSE IF b = 0 THEN a
    ELSE (IF a % 2 = 1 \/ b % 2 = 1 THEN 1 ELSE 0) + 2 * BitOr(a \div 2, b \div 2)

\* A faulty daq_config_set_flag: the word is assigned, not or-ed in.
set_flag_assigns(m, c, flag) ==
    IF c = NULL THEN [m |-> m, rc |-> DAQ_ERROR_INVAL]
    ELSE [m |-> store(m, c, [m.mem[c] EXCEPT !.flags = flag]), rc |-> DAQ_SUCCESS]

daq_config_set_flag(m, c, flag) ==
    IF c = NULL THEN [m |-> m, rc |-> DAQ_ERROR_INVAL]
    ELSE [m |-> store(m, c, [m.mem[c] EXCEPT !.flags = BitOr(@, flag)]),
          rc |-> DAQ_SUCCESS]

daq_config_get_flags(mem, c) == IF c # NULL THEN mem[c].flags ELSE 0

\* A faulty daq_config_set_variable: the entry of a key that is present is
\* deleted and inserted anew.
set_variable_reinserts(m, c, key, value, n) ==
    IF c = NULL \/ key = None THEN [m |-> m, rc |-> DAQ_ERROR_INVAL]
    ELSE daq_dict_insert_entry(daq_dict_delete_entry(m, c, key[1]), c, key[1], value, n)

daq_config_set_variable(m, c, key, value, n) ==
    IF c = NULL \/ key = None THEN [m |-> m, rc |-> DAQ_ERROR_INVAL]
    ELSE
    LET entry == daq_dict_find_entry(m.mem, c, key[1])
    IN  IF entry = NULL THEN daq_dict_insert_entry(m, c, key[1], value, n)
        ELSE IF value # None
        THEN LET new_value == strdup(m, value[1], n >= 1)
             IN  IF new_value.p = NULL THEN [m |-> m, rc |-> DAQ_ERROR_NOMEM]
                 ELSE
                 LET m1 == IF new_value.m.mem[entry].value # NULL
                           THEN free(new_value.m, new_value.m.mem[entry].value)
                           ELSE new_value.m
                 IN  [m |-> store(m1, entry,
                                  [m1.mem[entry] EXCEPT !.value = new_value.p]),
                      rc |-> DAQ_SUCCESS]
        ELSE IF m.mem[entry].value # NULL
        THEN LET m1 == free(m, m.mem[entry].value)
             IN  [m |-> store(m1, entry, [m1.mem[entry] EXCEPT !.value = NULL]),
                  rc |-> DAQ_SUCCESS]
        ELSE [m |-> m, rc |-> DAQ_SUCCESS]

\* A faulty daq_config_get_variable: it returns the entry's key.
get_variable_returns_key(mem, c, key) ==
    IF c = NULL \/ key = None THEN NULL
    ELSE LET entry == daq_dict_find_entry(mem, c, key[1])
         IN  IF entry = NULL THEN NULL ELSE mem[entry].key

daq_config_get_variable(mem, c, key) ==
    IF c = NULL \/ key = None THEN NULL
    ELSE LET entry == daq_dict_find_entry(mem, c, key[1])
         IN  IF entry = NULL THEN NULL ELSE mem[entry].value

daq_config_delete_variable(m, c, key) ==
    IF c = NULL \/ key = None THEN m
    ELSE daq_dict_delete_entry(m, c, key[1])

\* What first/next store through their key and value arguments.
EntryOut(m, entry) ==
    IF entry # NULL
    THEN [m |-> m, rc |-> DAQ_SUCCESS, key |-> m.mem[entry].key,
          value |-> m.mem[entry].value]
    ELSE [m |-> m, rc |-> DAQ_SUCCESS, key |-> NULL, value |-> NULL]

daq_config_first_variable(m, c) ==
    IF c = NULL THEN [m |-> m, rc |-> DAQ_ERROR_INVAL, key |-> NULL, value |-> NULL]
    ELSE LET entry == daq_dict_first_entry(m, c)
         IN  EntryOut(entry.m, entry.p)

daq_config_next_variable(m, c, nx) ==
    IF c = NULL THEN [m |-> m, rc |-> DAQ_ERROR_INVAL, key |-> NULL, value |-> NULL]
    ELSE LET entry == daq_dict_next_entry(m, c, nx)
         IN  EntryOut(entry.m, entry.p)

daq_config_clear_variables(m, c) ==
    IF c = NULL THEN m ELSE daq_dict_clear(m, c)

\* A faulty daq_config_destroy: the input string is not released.
destroy_keeps_input(m, c) ==
    IF c = NULL THEN m
    ELSE free(daq_config_clear_variables(m, c), c)

daq_config_destroy(m, c) ==
    IF c = NULL THEN m
    ELSE LET m1 == free(m, m.mem[c].input)
             m2 == daq_config_clear_variables(m1, c)
         IN  free(m2, c)

(***************************************************************************)
(* What a caller can observe of a configuration                            *)
(***************************************************************************)
Str(mem, p) == IF p = NULL THEN None ELSE Some(mem[p].s)

\* The entries reachable from entry, in list order.
RECURSIVE Chain(_, _)
Chain(mem, entry) ==
    IF entry = NULL THEN <<>> ELSE <<entry>> \o Chain(mem, mem[entry].next)

Entries(mem, c) == Chain(mem, mem[c].entries)

\* The variables in iteration order, each a key and an optional value.
Variables(mem, c) ==
    LET ch == Entries(mem, c)
    IN  [i \in 1 .. Len(ch) |->
            [key |-> mem[mem[ch[i]].key].s, value |-> Str(mem, mem[ch[i]].value)]]

\* The position of the iterator in the list: 0 for NULL, -1 when it points
\* at no entry of the list.
Cursor(mem, c) ==
    LET ch == Entries(mem, c)
        it == mem[c].iterator
    IN  IF it = NULL THEN 0
        ELSE IF \E i \in 1 .. Len(ch) : ch[i] = it
        THEN CHOOSE i \in 1 .. Len(ch) : ch[i] = it
        ELSE -1

\* The blocks in use.
Live(mem) == Addr \ FreeAddrs(mem)

Observe(mem, c) ==
    IF c = NULL
    THEN [vars |-> <<>>, cursor |-> 0, input |-> None, module |-> NULL,
          snaplen |-> 0, timeout |-> 0, mode |-> 0, flags |-> 0,
          blocks |-> Cardinality(Live(mem))]
    ELSE [vars |-> Variables(mem, c), cursor |-> Cursor(mem, c),
          input |-> Str(mem, daq_config_get_input(mem, c)),
          module |-> mem[c].module, snaplen |-> mem[c].snaplen,
          timeout |-> mem[c].timeout, mode |-> mem[c].mode, flags |-> mem[c].flags,
          blocks |-> Cardinality(Live(mem))]

Now == Observe(heap, cfg)

KeysOf(vs) == [i \in 1 .. Len(vs) |-> vs[i].key]
Range(f) == {f[i] : i \in DOMAIN f}
Last(q) == q[Len(q)]
Without(q, x) == SelectSeq(q, LAMBDA y : y # x)

(***************************************************************************)
(* Addresses are names.  The program never compares two addresses for      *)
(* order, prints one or computes with one, and which free address an       *)
(* allocation returns is the allocator's business; so two heaps that differ *)
(* only in the names of their blocks are the same state of the program.    *)
(* Every call leaves the heap under one naming: the blocks the             *)
(* configuration reaches, in the order it reaches them, then the rest in   *)
(* their old order.                                                        *)
(***************************************************************************)
\* The addresses reached from c: the object, its input, then each entry
\* followed by its key and its value.
RECURSIVE ReachFrom(_, _)
ReachFrom(mem, entry) ==
    IF entry = NULL \/ mem[entry].t # "entry" THEN <<>>
    ELSE <<entry>>
         \o (IF mem[entry].key # NULL THEN <<mem[entry].key>> ELSE <<>>)
         \o (IF mem[entry].value # NULL THEN <<mem[entry].value>> ELSE <<>>)
         \o ReachFrom(mem, mem[entry].next)

Reach(mem, c) ==
    IF c = NULL \/ mem[c].t # "cfg" THEN <<>>
    ELSE <<c>>
         \o (IF mem[c].input # NULL THEN <<mem[c].input>> ELSE <<>>)
         \o ReachFrom(mem, mem[c].entries)

\* q without its repeated elements, first occurrences kept.
RECURSIVE Uniq(_)
Uniq(q) ==
    IF q = <<>> THEN <<>>
    ELSE LET u == Uniq(SubSeq(q, 1, Len(q) - 1))
         IN  IF Last(q) \in Range(u) THEN u ELSE Append(u, Last(q))

\* The elements of the set S of addresses, lowest first.
Ascending(S) ==
    [i \in 1 .. Cardinality(S) |->
        CHOOSE a \in S : Cardinality({b \in S : b < a}) = i - 1]

\* The heap and the handle c under the new names: old[a] is the old name of
\* the block that is named a.
Rename(mem, c) ==
    LET r == Uniq(Reach(mem, c))
        old == r \o Ascending(Addr \ Range(r))
        ptr(p) == IF p \in Addr THEN CHOOSE a \in Addr : old[a] = p ELSE p
        block(b) ==
            IF b.t = "entry"
            THEN EntryBlock(ptr(b.key), ptr(b.value), ptr(b.next))
            ELSE IF b.t = "cfg"
            THEN [b EXCEPT !.input = ptr(@), !.entries = ptr(@), !.iterator = ptr(@)]
            ELSE b
    IN  [heap |-> [a \in Addr |-> block(mem[old[a]])], cfg |-> ptr(c)]

(***************************************************************************)
(* The calls                                                               *)
(***************************************************************************)
Mem == [mem |-> heap, err |-> freeErr]
NoWalk == [active |-> FALSE, keys |-> <<>>]
\* A call and its outcome; arg is its numeric argument, where it has one.
Call(op, rc, key, value) ==
    [op |-> op, rc |-> rc, key |-> key, value |-> value, arg |-> 0]

\* The heap before anything is allocated.
EmptyHeap == [a \in Addr |-> FreeBlock]

\* A configuration as daq_config_new returns it for a module descriptor.
Init ==
    \E module \in {HeapSize + 1} :
        LET r == daq_config_new([mem |-> EmptyHeap, err |-> FALSE], module, TRUE)
        IN  /\ heap = r.m.mem
            /\ freeErr = r.m.err
            /\ cfg = r.cfg
            /\ ret = [Call("new", r.rc, None, None) EXCEPT !.arg = module]
            /\ pre = Observe(EmptyHeap, NULL)
            /\ walk = NoWalk
            /\ insOrder = <<>>

New ==
    /\ cfg = NULL
    /\ \E module \in ModuleRefs \cup {NULL}, ok \in BOOLEAN :
        LET r == daq_config_new(Mem, module, ok)
        IN  /\ LET named == Rename(r.m.mem, r.cfg)
               IN  heap' = named.heap /\ cfg' = named.cfg
            /\ freeErr' = r.m.err
            /\ ret' = [Call("new", r.rc, None, None) EXCEPT !.arg = module]
    /\ pre' = Now
    /\ walk' = NoWalk
    /\ insOrder' = <<>>

SetInput ==
    /\ cfg # NULL
    /\ \E input \in Opt(Inputs), ok \in BOOLEAN :
        LET r == daq_config_set_input(Mem, cfg, input, ok)
        IN  /\ LET named == Rename(r.m.mem, cfg)
               IN  heap' = named.heap /\ cfg' = named.cfg
            /\ freeErr' = r.m.err
            /\ ret' = Call("set_input", r.rc, None, input)
    /\ pre' = Now
    /\ UNCHANGED <<walk, insOrder>>

\* K is the set of keys callers pass.
SetVariable(K) ==
    /\ cfg # NULL
    /\ \E key \in Opt(K), value \in Opt(Values), n \in 0 .. 3 :
        LET r == daq_config_set_variable(Mem, cfg, key, value, n)
        IN  /\ LET named == Rename(r.m.mem, cfg)
               IN  heap' = named.heap /\ cfg' = named.cfg
            /\ freeErr' = r.m.err
            /\ ret' = Call("set_variable", r.rc, key, value)
            /\ insOrder' = IF r.rc = DAQ_SUCCESS /\ key[1] \notin Range(insOrder)
                           THEN Append(insOrder, key[1])
                           ELSE insOrder
    /\ pre' = Now
    /\ walk' = NoWalk

DeleteVariable(K) ==
    /\ cfg # NULL
    /\ \E key \in Opt(K) :
        LET m == daq_config_delete_variable(Mem, cfg, key)
        IN  /\ LET named == Rename(m.mem, cfg)
               IN  heap' = named.heap /\ cfg' = named.cfg
            /\ freeErr' = m.err
            /\ ret' = Call("delete_variable", DAQ_SUCCESS, key, None)
            /\ insOrder' = IF key = None THEN insOrder ELSE Without(insOrder, key[1])
    /\ pre' = Now
    /\ walk' = NoWalk

ClearVariables ==
    /\ cfg # NULL
    /\ LET m == daq_config_clear_variables(Mem, cfg)
       IN  /\ LET named == Rename(m.mem, cfg)
              IN  heap' = named.heap /\ cfg' = named.cfg
           /\ freeErr' = m.err
    /\ ret' = Call("clear_variables", DAQ_SUCCESS, None, None)
    /\ pre' = Now
    /\ walk' = NoWalk
    /\ insOrder' = <<>>

FirstVariable ==
    /\ cfg # NULL
    /\ LET r == daq_config_first_variable(Mem, cfg)
       IN  /\ LET named == Rename(r.m.mem, cfg)
              IN  heap' = named.heap /\ cfg' = named.cfg
           /\ freeErr' = r.m.err
           /\ ret' = Call("first_variable", r.rc, Str(r.m.mem, r.key),
                          Str(r.m.mem, r.value))
           /\ walk' = [active |-> TRUE, keys |-> <<Str(r.m.mem, r.key)>>]
    /\ pre' = Now
    /\ UNCHANGED insOrder

NextVariable ==
    /\ cfg # NULL
    /\ \E nx \in IteratorNext(heap, heap[cfg].iterator) :
        LET r == daq_config_next_variable(Mem, cfg, nx)
        IN  /\ LET named == Rename(r.m.mem, cfg)
               IN  heap' = named.heap /\ cfg' = named.cfg
            /\ freeErr' = r.m.err
            /\ ret' = Call("next_variable", r.rc, Str(r.m.mem, r.key),
                           Str(r.m.mem, r.value))
            /\ walk' = IF walk.active /\ Last(walk.keys) # None
                       THEN [walk EXCEPT !.keys = Append(@, Str(r.m.mem, r.key))]
                       ELSE walk
    /\ pre' = Now
    /\ UNCHANGED insOrder

\* The caller drops its handle with the call: a destroyed object is never
\* used again.
Destroy ==
    /\ cfg # NULL
    /\ LET m == daq_config_destroy(Mem, cfg)
       IN  /\ heap' = Rename(m.mem, NULL).heap
           /\ freeErr' = m.err
    /\ cfg' = NULL
    /\ ret' = Call("destroy", DAQ_SUCCESS, None, None)
    /\ pre' = Now
    /\ walk' = NoWalk
    /\ insOrder' = <<>>

\* The setters of the scalar fields.  r is the setter's result for arg.  They
\* allocate and free nothing, so the blocks keep their addresses.
Setter(op, r, arg) ==
    /\ cfg # NULL
    /\ heap' = r.m.mem
    /\ freeErr' = r.m.err
    /\ ret' = [Call(op, r.rc, None, None) EXCEPT !.arg = arg]
    /\ pre' = Now
    /\ UNCHANGED <<cfg, walk, insOrder>>

SetSnaplen ==
    \E snaplen \in Snaplens :
        Setter("set_snaplen", daq_config_set_snaplen(Mem, cfg, snaplen), snaplen)

SetTimeout ==
    \E timeout \in Timeouts :
        Setter("set_timeout", daq_config_set_timeout(Mem, cfg, timeout), timeout)

SetMode ==
    \E mode \in Modes :
        Setter("set_mode", daq_config_set_mode(Mem, cfg, mode), mode)

SetFlag ==
    \E flag \in FlagWords :
        Setter("set_flag", daq_config_set_flag(Mem, cfg, flag), flag)

\* The calls made with a null DAQ_Config_t * while a configuration lives.
\* m is the memory the call leaves, rc its result code (DAQ_SUCCESS stands
\* for the return of a void function).
OnNull(op, m, rc) ==
    /\ cfg # NULL
    /\ heap' = m.mem
    /\ freeErr' = m.err
    /\ ret' = Call(op, rc, None, None)
    /\ pre' = Now
    /\ UNCHANGED <<cfg, walk, insOrder>>

NullSetInput ==
    \E r \in {daq_config_set_input(Mem, NULL, input, ok) :
                 input \in Opt(Inputs), ok \in BOOLEAN} :
        OnNull("set_input(NULL)", r.m, r.rc)

NullSetSnaplen ==
    \E snaplen \in Snaplens :
        LET r == daq_config_set_snaplen(Mem, NULL, snaplen)
        IN  OnNull("set_snaplen(NULL)", r.m, r.rc)

NullSetTimeout ==
    \E timeout \in Timeouts :
        LET r == daq_config_set_timeout(Mem, NULL, timeout)
        IN  OnNull("set_timeout(NULL)", r.m, r.rc)

NullSetMode ==
    \E mode \in Modes :
        LET r == daq_config_set_mode(Mem, NULL, mode)
        IN  OnNull("set_mode(NULL)", r.m, r.rc)

NullSetFlag ==
    \E flag \in FlagWords :
        LET r == daq_config_set_flag(Mem, NULL, flag)
        IN  OnNull("set_flag(NULL)", r.m, r.rc)

NullSetVariable(K) ==
    \E r \in {daq_config_set_variable(Mem, NULL, key, value, n) :
                 key \in Opt(K), value \in Opt(Values), n \in 0 .. 3} :
        OnNull("set_variable(NULL)", r.m, r.rc)

NullDeleteVariable(K) ==
    \E key \in Opt(K) :
        OnNull("delete_variable(NULL)", daq_config_delete_variable(Mem, NULL, key),
               DAQ_SUCCESS)

NullClearVariables ==
    OnNull("clear_variables(NULL)", daq_config_clear_variables(Mem, NULL), DAQ_SUCCESS)

NullFirstVariable ==
    LET r == daq_config_first_variable(Mem, NULL)
    IN  OnNull("first_variable(NULL)", r.m, r.rc)

NullNextVariable ==
    LET r == daq_config_next_variable(Mem, NULL, NULL)
    IN  OnNull("next_variable(NULL)", r.m, r.rc)

NullDestroy == OnNull("destroy(NULL)", daq_config_destroy(Mem, NULL), DAQ_SUCCESS)

\* The calls on the dictionary of variables of one configuration.
Next ==
    \/ SetVariable(Keys)
    \/ DeleteVariable(Keys)
    \/ ClearVariables
    \/ FirstVariable
    \/ NextVariable

Spec == Init /\ [][Next]_vars

\* Every call, the configuration's creation and destruction included.
NextConfig ==
    \/ New
    \/ SetInput
    \/ SetVariable(FewKeys)
    \/ DeleteVariable(FewKeys)
    \/ ClearVariables
    \/ FirstVariable
    \/ NextVariable
    \/ Destroy

SpecConfig == Init /\ [][NextConfig]_vars

\* Every function of the file called with a configuration; the variables
\* have one key.
OneKey == {"a"}

NextAll ==
    \/ New
    \/ SetInput
    \/ SetSnaplen
    \/ SetTimeout
    \/ SetMode
    \/ SetFlag
    \/ SetVariable(OneKey)
    \/ DeleteVariable(OneKey)
    \/ ClearVariables
    \/ FirstVariable
    \/ NextVariable
    \/ Destroy

SpecAll == Init /\ [][NextAll]_vars

\* The calls of SpecConfig, and every function of the file called with NULL
\* while a configuration lives.
NextNull ==
    \/ NextConfig
    \/ NullSetInput
    \/ NullSetSnaplen
    \/ NullSetTimeout
    \/ NullSetMode
    \/ NullSetFlag
    \/ NullSetVariable(FewKeys)
    \/ NullDeleteVariable(FewKeys)
    \/ NullClearVariables
    \/ NullFirstVariable
    \/ NullNextVariable
    \/ NullDestroy

SpecNull == Init /\ [][NextNull]_vars

(***************************************************************************)
(* Properties                                                              *)
(***************************************************************************)
Reverse(q) == [i \in 1 .. Len(q) |-> q[Len(q) + 1 - i]]
HasKey(vs, k) == \E i \in DOMAIN vs : vs[i].key = k
\* vs without the variables whose key is k.
Dropped(vs, k) == SelectSeq(vs, LAMBDA e : e.key # k)

\* What getVariable(key) returns now.
GetVariable(key) == Str(heap, daq_config_get_variable(heap, cfg, key))

\* C1: no two live entries have the same key, and a successful
\* setVariable(k, v) leaves exactly one entry for k, whose value is v.
C1_UniqueKeys ==
    cfg # NULL =>
        /\ \A i, j \in DOMAIN Now.vars : i # j => Now.vars[i].key # Now.vars[j].key
        /\ (ret.op = "set_variable" /\ ret.rc = DAQ_SUCCESS) =>
               \E i \in DOMAIN Now.vars :
                   /\ Now.vars[i] = [key |-> ret.key[1], value |-> ret.value]
                   /\ \A j \in DOMAIN Now.vars \ {i} : Now.vars[j].key # ret.key[1]

\* setVariable(k, "y") has just succeeded on a store of several entries in
\* which k had the value "x".
C1_Witness ==
    /\ ret.op = "set_variable" /\ ret.rc = DAQ_SUCCESS /\ ret.value = Some("y")
    /\ Len(pre.vars) >= 2
    /\ \E i \in DOMAIN pre.vars :
           pre.vars[i] = [key |-> ret.key[1], value |-> Some("x")]

\* C2: with no mutating call in between, firstVariable and the nextVariable
\* calls after it return the live entries one by one, the most recently
\* inserted first, then (none, none); each returned value is its entry's.
C2_ReverseInsertionOrder ==
    walk.active =>
        LET all == [i \in DOMAIN Now.vars |-> Some(Now.vars[i].key)] \o <<None>>
        IN  /\ KeysOf(Now.vars) = Reverse(insOrder)
            /\ Len(walk.keys) <= Len(all)
            /\ walk.keys = SubSeq(all, 1, Len(walk.keys))
            /\ ret.op \in {"first_variable", "next_variable"} =>
                   /\ ret.key = Last(walk.keys)
                   /\ IF ret.key = None THEN ret.value = None
                      ELSE Now.vars[Len(walk.keys)].value = ret.value

\* a, b, c were inserted in this order and the iteration has returned
\* c, b, a, none.
C2_Witness ==
    /\ walk.active
    /\ insOrder = <<"a", "b", "c">>
    /\ walk.keys = <<Some("c"), Some("b"), Some("a"), None>>

\* C3: after a successful setVariable(k, v), getVariable(k) returns v; when v
\* is none it returns none and k is still an entry of the store.
C3_SetThenGet ==
    (ret.op = "set_variable" /\ ret.rc = DAQ_SUCCESS) =>
        /\ GetVariable(ret.key) = ret.value
        /\ HasKey(Now.vars, ret.key[1])

\* setVariable(k, none) has just succeeded where k had a value.
C3_Witness ==
    /\ ret.op = "set_variable" /\ ret.rc = DAQ_SUCCESS /\ ret.value = None
    /\ \E i \in DOMAIN pre.vars : pre.vars[i].key = ret.key[1] /\ pre.vars[i].value # None
    /\ HasKey(Now.vars, ret.key[1])

\* C4: deleteVariable(k) with k present removes the entry of k and nothing
\* else: the other entries keep their keys, values and relative order.
C4_DeleteRemovesOne ==
    (ret.op = "delete_variable" /\ ret.key # None /\ HasKey(pre.vars, ret.key[1])) =>
        /\ Now.vars = Dropped(pre.vars, ret.key[1])
        /\ Len(Now.vars) = Len(pre.vars) - 1

\* The middle one of three entries has just been deleted.
C4_Witness ==
    /\ ret.op = "delete_variable" /\ ret.key # None
    /\ Len(pre.vars) = 3 /\ pre.vars[2].key = ret.key[1]
    /\ Len(Now.vars) = 2

\* The (key, value) pairs a firstVariable or a nextVariable issued now
\* would return.
Pair(r) == <<Str(r.m.mem, r.key), Str(r.m.mem, r.value)>>
FirstResult == Pair(daq_config_first_variable(Mem, cfg))
NextResults ==
    {Pair(daq_config_next_variable(Mem, cfg, nx)) :
        nx \in IteratorNext(heap, heap[cfg].iterator)}

DeletedPresent ==
    ret.op = "delete_variable" /\ ret.key # None /\ HasKey(pre.vars, ret.key[1])
DeletedAbsent ==
    ret.op = "delete_variable" /\ ret.key # None /\ ~HasKey(pre.vars, ret.key[1])

\* C5 as stated: after any deleteVariable with a non-null key, present or
\* not, a nextVariable without a firstVariable returns (none, none).
C5_AnyDeleteResetsCursor ==
    (ret.op = "delete_variable" /\ ret.key # None) => NextResults = {<<None, None>>}

\* C5 as amended: after a deleteVariable whose key was present the cursor is
\* none and a nextVariable without a firstVariable returns (none, none); a
\* deleteVariable whose key was absent leaves the cursor where it was.
C5_DeleteOfPresentResetsCursor ==
    /\ DeletedPresent => (Now.cursor = 0 /\ NextResults = {<<None, None>>})
    /\ DeletedAbsent => Now.cursor = pre.cursor

\* An entry has just been deleted while the cursor was on another one.
C5_Witness ==
    /\ DeletedPresent
    /\ pre.cursor >= 1 /\ pre.vars[pre.cursor].key # ret.key[1]
    /\ Now.cursor = 0 /\ Len(Now.vars) >= 1

\* C6: deleteVariable(k) with k absent changes nothing (entries, order,
\* values, cursor, blocks in use), and so does a second one.
C6_DeleteAbsentNoOp ==
    DeletedAbsent =>
        /\ Now = pre
        /\ daq_config_delete_variable(Mem, cfg, ret.key) = Mem

\* An absent key has just been deleted from a store of several entries, the
\* cursor being set.
C6_Witness ==
    /\ DeletedAbsent
    /\ Len(pre.vars) >= 2 /\ pre.cursor >= 1
    /\ Now.cursor = pre.cursor

\* C7: a setVariable that returns OutOfMemory leaves the entries, their
\* order and values, the cursor and the number of blocks in use as they were.
C7_NoMemLeavesNoTrace ==
    (ret.op = "set_variable" /\ ret.rc = DAQ_ERROR_NOMEM) => Now = pre

\* An insertion with a value has just failed although blocks were free for
\* the entry and the key's copy.
C7_Witness ==
    /\ ret.op = "set_variable" /\ ret.rc = DAQ_ERROR_NOMEM
    /\ ret.value # None /\ ~HasKey(pre.vars, ret.key[1])
    /\ Len(pre.vars) >= 1 /\ pre.cursor >= 1
    /\ Cardinality(FreeAddrs(heap)) >= 3

\* C8: after clearVariables the store is empty and the cursor none: first and
\* next return (none, none), getVariable returns none for every key, only the
\* blocks the configuration still owns are in use, a further clearVariables
\* changes nothing, and a setVariable(k, v) that succeeds leaves the single
\* entry k.
C8_ClearEmpties ==
    ret.op = "clear_variables" =>
        /\ Now.vars = <<>> /\ Now.cursor = 0
        /\ FirstResult = <<None, None>>
        /\ NextResults = {<<None, None>>}
        /\ \A k \in Keys : GetVariable(Some(k)) = None
        /\ Live(heap) = Range(Reach(heap, cfg))
        /\ daq_config_clear_variables(Mem, cfg) = Mem
        /\ \A k \in Keys, v \in Opt(Values) :
               LET r == daq_config_set_variable(Mem, cfg, Some(k), v, 3)
               IN  r.rc = DAQ_SUCCESS =>
                       Variables(r.m.mem, cfg) = <<[key |-> k, value |-> v]>>

\* A store of several entries has just been cleared, the cursor being past
\* the head.
C8_Witness ==
    /\ ret.op = "clear_variables"
    /\ Len(pre.vars) >= 2 /\ pre.cursor >= 2
    /\ Now.vars = <<>>

\* The blocks are of the kinds their owners expect.
WellTyped(mem, c) ==
    /\ mem[c].t = "cfg"
    /\ mem[c].input # NULL => mem[mem[c].input].t = "str"
    /\ \A i \in DOMAIN Entries(mem, c) :
           LET e == mem[Entries(mem, c)[i]]
           IN  /\ e.key # NULL /\ mem[e.key].t = "str"
               /\ e.value # NULL => mem[e.value].t = "str"

\* C9: no block is ever released twice; while the configuration lives, the
\* blocks in use are exactly those it owns (the object, its input, its
\* entries, their keys and values), each owned once; after destroy no block is
\* in use.
C9_HeapOwnership ==
    /\ ~freeErr
    /\ cfg = NULL => Live(heap) = {}
    /\ cfg # NULL =>
           /\ Range(Reach(heap, cfg)) = Live(heap)
           /\ Len(Reach(heap, cfg)) = Cardinality(Live(heap))
           /\ WellTyped(heap, cfg)

\* A configuration with an input and several variables has just been
\* destroyed.
C9_Witness ==
    /\ ret.op = "destroy"
    /\ Len(pre.vars) >= 2 /\ pre.input # None /\ pre.blocks >= 6
    /\ Live(heap) = {}

\* C10: a setInput that returns OutOfMemory leaves the input empty, the old
\* string released, and everything else as it was.
C10_SetInputNoMemClears ==
    (ret.op = "set_input" /\ ret.rc = DAQ_ERROR_NOMEM) =>
        /\ Str(heap, daq_config_get_input(heap, cfg)) = None
        /\ Now = [pre EXCEPT !.input = None,
                             !.blocks = IF pre.input = None THEN @ ELSE @ - 1]

\* A setInput has just failed on a configuration that had an input and
\* variables.
C10_Witness ==
    /\ ret.op = "set_input" /\ ret.rc = DAQ_ERROR_NOMEM
    /\ pre.input = Some("eth0") /\ Len(pre.vars) >= 1 /\ pre.cursor >= 1
    /\ Now.input = None

\* What getInput returns now.
GetInput == Str(heap, daq_config_get_input(heap, cfg))

\* C11 as stated: after a successful setInput(t), getInput returns t when t
\* is a non-empty string and none when t is none or the empty string.
C11_EmptyInputClears ==
    (ret.op = "set_input" /\ ret.rc = DAQ_SUCCESS) =>
        GetInput = IF ret.value = Some("") THEN None ELSE ret.value

\* C11 as amended: after a successful setInput(t), getInput returns a copy of
\* t for every string t, the empty one included, and none when t is none;
\* the string held before is released.
C11_SetInputReplaces ==
    (ret.op = "set_input" /\ ret.rc = DAQ_SUCCESS) =>
        /\ GetInput = ret.value
        /\ Now = [pre EXCEPT !.input = ret.value,
                             !.blocks = @ - (IF pre.input = None THEN 0 ELSE 1)
                                          + (IF ret.value = None THEN 0 ELSE 1)]

\* setInput("") has just succeeded where the input was "eth0".
C11_Witness ==
    /\ ret.op = "set_input" /\ ret.rc = DAQ_SUCCESS /\ ret.value = Some("")
    /\ pre.input = Some("eth0")
    /\ GetInput = Some("")


\* The positions of the bits set in the word n.
RECURSIVE Bits(_)
Bits(n) ==
    IF n = 0 THEN {}
    ELSE (IF n % 2 = 1 THEN {0} ELSE {}) \cup {i + 1 : i \in Bits(n \div 2)}

GetFlags == daq_config_get_flags(heap, cfg)

\* C12: across every call on a live configuration the flags after the call
\* include the flags before it; a successful addFlag(F) leaves the union of
\* the flags before it and F, so that addFlag(F1) then addFlag(F2) on the
\* flags S leaves S | F1 | F2.
C12_FlagsAccumulate ==
    cfg # NULL =>
        /\ ret.op # "new" => Bits(pre.flags) \subseteq Bits(GetFlags)
        /\ ret.op = "set_flag" =>
               /\ ret.rc = DAQ_SUCCESS
               /\ Bits(GetFlags) = Bits(pre.flags) \cup Bits(ret.arg)
        /\ \A F1, F2 \in FlagWords :
               LET m1 == daq_config_set_flag(Mem, cfg, F1).m
                   m2 == daq_config_set_flag(m1, cfg, F2).m
               IN  Bits(daq_config_get_flags(m2.mem, cfg))
                       = Bits(GetFlags) \cup Bits(F1) \cup Bits(F2)

\* addFlag(2) on a configuration whose flags were 1 leaves both bits.
C12_Witness ==
    /\ ret.op = "set_flag" /\ ret.rc = DAQ_SUCCESS /\ ret.arg = 2
    /\ pre.flags = 1
    /\ Bits(GetFlags) = {0, 1}

GetModule == daq_config_get_module(heap, cfg)

\* C13: create(moduleRef) with a module yields a configuration whose
\* getModule returns moduleRef, and every later call on the configuration
\* leaves getModule the same; create(null) returns InvalidArgument and makes
\* no configuration.
C13_ModuleFixedAtCreation ==
    /\ ret.op = "new" =>
           IF ret.arg = NULL
           THEN ret.rc = DAQ_ERROR_INVAL /\ cfg = NULL /\ Now.blocks = pre.blocks
           ELSE /\ ret.rc \in {DAQ_SUCCESS, DAQ_ERROR_NOMEM}
                /\ ret.rc = DAQ_SUCCESS => cfg # NULL /\ GetModule = ret.arg
                /\ ret.rc = DAQ_ERROR_NOMEM => cfg = NULL
    /\ (cfg # NULL /\ ret.op # "new") => GetModule = pre.module

\* A configuration created for the second module has had its input, its
\* snaplen, its flags and a variable set, and has been iterated.
C13_Witness ==
    /\ ret.op = "next_variable"
    /\ GetModule = HeapSize + 2
    /\ Now.input # None /\ Now.snaplen # 0 /\ Now.flags # 0 /\ Len(Now.vars) = 1

GetSnaplen == daq_config_get_snaplen(heap, cfg)
GetTimeout == daq_config_get_timeout(heap, cfg)
GetMode == daq_config_get_mode(heap, cfg)

\* C14: right after a successful create the configuration has snaplen 0,
\* timeout 0, mode NONE, no flag and no input; it has no variable and its
\* cursor is none, so that firstVariable and nextVariable return
\* (none, none), and getVariable returns none for every key.
C14_DefaultsAfterCreate ==
    (ret.op = "new" /\ ret.rc = DAQ_SUCCESS) =>
        /\ GetSnaplen = 0 /\ GetTimeout = 0 /\ GetMode = DAQ_MODE_NONE
        /\ GetFlags = 0 /\ GetInput = None
        /\ Now.vars = <<>> /\ Now.cursor = 0
        /\ FirstResult = <<None, None>>
        /\ NextResults = {<<None, None>>}
        /\ \A key \in Keys : GetVariable(Some(key)) = None

\* A configuration has just been created for the second module, in the
\* memory an earlier configuration left.
C14_Witness ==
    /\ ret.op = "new" /\ ret.rc = DAQ_SUCCESS /\ ret.arg = HeapSize + 2
    /\ cfg # NULL /\ Now.blocks = 1

\* The calls with no configuration that return a result code, and the ones
\* that return nothing.
NullCodeOps ==
    {"set_input(NULL)", "set_snaplen(NULL)", "set_timeout(NULL)", "set_mode(NULL)",
     "set_flag(NULL)", "set_variable(NULL)", "first_variable(NULL)",
     "next_variable(NULL)"}
NullVoidOps == {"delete_variable(NULL)", "clear_variables(NULL)", "destroy(NULL)"}

\* C15: a call without its receiver or without its key changes nothing of
\* the live configuration.  With a null receiver the accessors return none,
\* 0, NONE or no flag, the calls with a result code return InvalidArgument,
\* and deleteVariable, clearVariables and destroy do nothing.  With a null
\* key setVariable returns InvalidArgument, getVariable returns none and
\* deleteVariable does nothing.
C15_AbsentReference ==
    /\ daq_config_get_module(heap, NULL) = NULL
    /\ Str(heap, daq_config_get_input(heap, NULL)) = None
    /\ daq_config_get_snaplen(heap, NULL) = 0
    /\ daq_config_get_timeout(heap, NULL) = 0
    /\ daq_config_get_mode(heap, NULL) = DAQ_MODE_NONE
    /\ daq_config_get_flags(heap, NULL) = 0
    /\ \A key \in Opt(Keys) :
           Str(heap, daq_config_get_variable(heap, NULL, key)) = None
    /\ GetVariable(None) = None
    /\ ret.op \in NullCodeOps => ret.rc = DAQ_ERROR_INVAL
    /\ ret.op \in NullCodeOps \cup NullVoidOps => Now = pre /\ ~freeErr
    /\ (ret.op = "set_variable" /\ ret.key = None) =>
           ret.rc = DAQ_ERROR_INVAL /\ Now = pre
    /\ (ret.op = "delete_variable" /\ ret.key = None) => Now = pre

\* destroy(null) has just returned while a configuration with an input, two
\* variables and an iteration in flight lives.
C15_Witness ==
    /\ ret.op = "destroy(NULL)"
    /\ cfg # NULL /\ Len(Now.vars) = 2 /\ Now.cursor > 0 /\ Now.input # None

\* C16: whatever setVariable, deleteVariable, clearVariables, firstVariable
\* and nextVariable calls have been made, the iterator is NULL or points at
\* an entry of the list, never at a released block.
C16_CursorLive ==
    LET it == heap[cfg].iterator
    IN  it # NULL =>
            /\ heap[it].t = "entry"
            /\ it \in Range(Entries(heap, cfg))
            /\ heap[heap[it].key].t = "str"

\* The entry the cursor was at has just been deleted.
C16_Witness ==
    /\ DeletedPresent
    /\ pre.cursor >= 1 /\ pre.vars[pre.cursor].key = ret.key[1]
    /\ Len(Now.vars) >= 1 /\ heap[cfg].iterator = NULL

\* C17: a successful setVariable(k, v) for a key that is present changes the
\* value of k's entry to v (none when v is none) and nothing else: the
\* number of entries, the place of k in the list, the other entries and the
\* cursor stay as they were.
C17_ReplacesInPlace ==
    (ret.op = "set_variable" /\ ret.rc = DAQ_SUCCESS /\ HasKey(pre.vars, ret.key[1])) =>
        /\ Len(Now.vars) = Len(pre.vars)
        /\ \A i \in DOMAIN pre.vars :
               Now.vars[i] = IF pre.vars[i].key = ret.key[1]
                             THEN [key |-> ret.key[1], value |-> ret.value]
                             ELSE pre.vars[i]
        /\ Now.cursor = pre.cursor
        /\ GetVariable(ret.key) = ret.value
        /\ Now.blocks = pre.blocks
                          - (IF \E i \in DOMAIN pre.vars :
                                   pre.vars[i] = [key |-> ret.key[1], value |-> None]
                             THEN 0 ELSE 1)
                          + (IF ret.value = None THEN 0 ELSE 1)

\* The value of the second of three entries has just been replaced by none,
\* the cursor being at the third.
C17_Witness ==
    /\ ret.op = "set_variable" /\ ret.rc = DAQ_SUCCESS /\ ret.value = None
    /\ Len(pre.vars) = 3 /\ pre.cursor = 3
    /\ pre.vars[2] = [key |-> ret.key[1], value |-> Some("x")]
    /\ Now.vars[2] = [key |-> ret.key[1], value |-> None]

\* C18: a nextVariable called with the cursor at none returns (none, none)
\* and changes nothing; no call but firstVariable takes the cursor away from
\* none; firstVariable puts the cursor at the head of the list, wherever it
\* was, and returns the head's key and value, or (none, none) when the list
\* is empty.
C18_NextNeedsFirst ==
    /\ (ret.op = "next_variable" /\ pre.cursor = 0) =>
           /\ ret.rc = DAQ_SUCCESS /\ ret.key = None /\ ret.value = None
           /\ Now = pre
    /\ (ret.op # "first_variable" /\ pre.cursor = 0) => Now.cursor = 0
    /\ Now.cursor = 0 => NextResults = {<<None, None>>}
    /\ ret.op = "first_variable" =>
           /\ ret.rc = DAQ_SUCCESS
           /\ Now = [pre EXCEPT !.cursor = IF pre.vars = <<>> THEN 0 ELSE 1]
           /\ <<ret.key, ret.value>> =
                  IF pre.vars = <<>> THEN <<None, None>>
                  ELSE <<Some(pre.vars[1].key), pre.vars[1].value>>

\* An iteration over two entries has reached its end, and one more
\* nextVariable has been called.
C18_Witness ==
    /\ ret.op = "next_variable" /\ pre.cursor = 0 /\ ret.key = None
    /\ walk.active /\ Len(walk.keys) = 3 /\ Len(Now.vars) = 2

\* The keys the nextVariable calls made from memory m on return, one after
\* the other, up to the first (none, none) or to the calls-th call.
RECURSIVE RestOfWalk(_, _)
RestOfWalk(m, calls) ==
    LET nx == CHOOSE a \in IteratorNext(m.mem, m.mem[cfg].iterator) : TRUE
        r  == daq_config_next_variable(m, cfg, nx)
    IN  IF r.key = NULL \/ calls = 0 THEN <<>>
        ELSE <<m.mem[r.key].s>> \o RestOfWalk(r.m, calls - 1)

\* C19: a setVariable made while the cursor is set leaves the cursor at the
\* entry it was at.  A key it inserts becomes the head of the list; the
\* nextVariable calls that follow return the entries that were behind the
\* cursor, each once and in order, and then (none, none), without the new
\* key, which the next firstVariable returns.
C19_SetDuringIteration ==
    (ret.op = "set_variable" /\ pre.cursor >= 1) =>
        LET behind == SubSeq(KeysOf(pre.vars), pre.cursor + 1, Len(pre.vars))
            rest   == RestOfWalk(Mem, HeapSize)
        IN  /\ Now.cursor >= 1
            /\ Now.vars[Now.cursor].key = pre.vars[pre.cursor].key
            /\ rest = behind
            /\ (ret.rc = DAQ_SUCCESS /\ ~HasKey(pre.vars, ret.key[1])) =>
                   /\ Now.vars = <<[key |-> ret.key[1], value |-> ret.value]>> \o pre.vars
                   /\ Now.cursor = pre.cursor + 1
                   /\ ret.key[1] \notin Range(rest)
                   /\ FirstResult = <<ret.key, ret.value>>

\* A new key has just been inserted while the cursor was at the first of two
\* entries.
C19_Witness ==
    /\ ret.op = "set_variable" /\ ret.rc = DAQ_SUCCESS
    /\ ~HasKey(pre.vars, ret.key[1])
    /\ Len(pre.vars) = 2 /\ pre.cursor = 1
    /\ RestOfWalk(Mem, HeapSize) = <<pre.vars[2].key>>
====
